---- MODULE Spec2Model ----
(***************************************************************************)
(* Transaction reconciliation: the matching engine                         *)
(* (src/src/core/matching_engine.py) and the orchestrator                  *)
(* (src/src/services/reconciliation_service.py).                           *)
(*                                                                         *)
(* Representation.                                                         *)
(*  - Text is a sequence of one-character strings; Python's None is the    *)
(*    sentinel NoneVal and a non-text value (a number in a notes field)    *)
(*    is the sentinel NonText.                                             *)
(*  - Currency amounts are fixed-point numbers in thousandths of a         *)
(*    currency unit ("mills"): a purchase total of 100.005 is 100005, a    *)
(*    transaction amount of 10000 minor units is abs(10000)/100 = 100.0 =  *)
(*    100000 mills.  Binary floating-point rounding is not modelled.       *)
(*  - Confidence scores are in hundredths (0.40 is 40).                    *)
(*  - Time is counted in ticks, TicksPerDay ticks to a day; a timedelta's  *)
(*    .days attribute is the floor of the tick difference over a day.      *)
(*  - An Optional[MatchResult] is a sequence of length 0 (None) or 1.      *)
(***************************************************************************)
EXTENDS Integers, Sequences, FiniteSets, TLC

\* ------------------------------------------------------------------
\* Bounds of the model
\* ------------------------------------------------------------------
MaxPool == 2
MaxPurchases == 2
TicksPerDay == 2

\* ------------------------------------------------------------------
\* Program constants (in model units)
\* ------------------------------------------------------------------
MillsPerMinor == 10
ORDER_AMOUNT_TOL == 10
EXACT_AMOUNT_TOL == 10
CLOSE_AMOUNT_TOL == 1000
W_AMOUNT_EXACT == 40
W_AMOUNT_CLOSE == 20
W_DATE_SAME_DAY == 30
W_DATE_WITHIN_3 == 20
W_LAST_FOUR == 20
SAME_DAY_MAX == 0
NEAR_DAY_MAX == 3
STRATEGY_FLOOR == 75
ACCEPT_FLOOR == 75
ORDER_CONFIDENCE == 100
FILTER_AMOUNT_TOL == 5000
FILTER_DAY_MAX == 7

\* ------------------------------------------------------------------
\* Python values
\* ------------------------------------------------------------------
NoneVal == <<"<None>">>
NonText == <<"<int>">>

Abs(x) == IF x < 0 THEN -x ELSE x

\* bool(x) for a text-or-None value: None and '' are falsy
Truthy(x) == x # NoneVal /\ x # <<>>

\* str(x)
Str(x) == IF x = NoneVal THEN <<"N", "o", "n", "e">> ELSE x

\* a in b for two str values
IsSubstr(a, b) ==
    \E i \in 0..(Len(b) - Len(a)) :
        \A k \in 1..Len(a) : b[i + k] = a[k]

\* ------------------------------------------------------------------
\* Regular expressions of _extract_last_four
\* ------------------------------------------------------------------
Lower(c) == IF c = "C" THEN "c" ELSE c
IsWs(c) == c = " "
IsDigit(c) == c \in {"0", "1", "2", "3", "4", "5", "6", "7", "8", "9"}

\* the patterns, in the order the code tries them: a literal prefix
\* (matched case-insensitively), a whitespace quantifier, then (\d{4})
patterns ==
    << [lit |-> <<"c", "c", "#">>, ws |-> "star"],
       [lit |-> <<"c", "c", ":">>, ws |-> "star"],
       [lit |-> <<"c", "c">>,      ws |-> "plus"],
       [lit |-> <<"#">>,           ws |-> "none"],
       [lit |-> <<"c", "c">>,      ws |-> "opt"] >>

\* number of whitespace characters of text starting at position j
RECURSIVE WsRun(_, _)
WsRun(text, j) ==
    IF j <= Len(text) /\ IsWs(text[j]) THEN 1 + WsRun(text, j + 1) ELSE 0

DigitsAt(text, k) ==
    /\ k >= 1
    /\ k + 3 <= Len(text)
    /\ \A d \in 0..3 : IsDigit(text[k + d])

\* position of the captured group when pattern pat matches at position i,
\* 0 when it does not match there
GroupAt(pat, text, i) ==
    LET n == Len(pat.lit)
        j == i + n
        r == WsRun(text, j)
        litOk == /\ i + n - 1 <= Len(text)
                 /\ \A k \in 1..n : Lower(text[i + k - 1]) = pat.lit[k]
        g == CASE pat.ws = "star" -> j + r
               [] pat.ws = "plus" -> IF r >= 1 THEN j + r ELSE 0
               [] pat.ws = "opt"  -> IF r <= 1 THEN j + r ELSE 0
               [] OTHER           -> j
    IN  IF litOk /\ g > 0 /\ DigitsAt(text, g) THEN g ELSE 0

\* re.search(pattern, text, re.IGNORECASE): the match.group(1) of the
\* leftmost match, NoneVal when there is none
ReSearch(pat, text) ==
    LET hits == {i \in 1..Len(text) : GroupAt(pat, text, i) > 0}
    IN  IF hits = {} THEN NoneVal
        ELSE LET i == CHOOSE h \in hits : \A o \in hits : h <= o
                 g == GroupAt(pat, text, i)
             IN  SubSeq(text, g, g + 3)

_extract_last_four(text) ==
    IF ~Truthy(text) \/ text = NonText THEN NoneVal
    ELSE LET ok == {k \in 1..Len(patterns) : ReSearch(patterns[k], text) # NoneVal}
         IN  IF ok = {} THEN NoneVal
             ELSE ReSearch(patterns[CHOOSE k \in ok : \A o \in ok : k <= o], text)

\* ------------------------------------------------------------------
\* MatchingEngine
\* ------------------------------------------------------------------
\* mutant: the amount is taken with its sign
reveal_amount_signed(txn) == txn.amount * MillsPerMinor

\* reveal_amount = abs(reveal_txn['amount']) / 100, in mills
reveal_amount(txn) == Abs(txn.amount) * MillsPerMinor

\* abs(reveal_amount - total) is computed in binary floating point.  When
\* the two decimal amounts differ by exactly a tolerance the computed
\* difference can fall below it: abs(100.02 - 100.01) is
\* 0.009999999999990905.  RoundsBelow holds the pairs (minor units of the
\* transaction, total in mills) of the amounts of the model for which it
\* does; for the other pairs at a tolerance the computed difference is the
\* tolerance or above (abs(100.01 - 100.0) is 0.010000000000005116,
\* abs(101.0 - 100.0) is 1.0, abs(105.0 - 100.0) is 5.0).
RoundsBelow == { << 10002, 100010 >> }

\* abs(reveal_amount - total) < tol as the code evaluates it
amount_within(txn, total, tol) ==
    LET amount_diff == Abs(reveal_amount(txn) - total)
    IN  \/ amount_diff < tol
        \/ amount_diff = tol /\ << Abs(txn.amount), total >> \in RoundsBelow

\* timedelta.days: whole days of a tick difference, rounded down
Days(delta) == delta \div TicksPerDay

\* A createdDate text is written as a number: n is the text of tick n
\* without a fractional part ('...T10:00:00Z'), FracForm + n the text of the
\* same tick followed by a fraction of a second ('...T10:00:00.500Z'), and
\* a negative number a text that is not an ISO date.  The fraction is
\* shorter than one tick.
FracForm == 10000
EmptyDate == -1
NotADate == -2

iso_ticks(text) == text % FracForm
iso_frac(text) == IF text >= FracForm THEN 1 ELSE 0

\* datetime.fromisoformat(createdDate.replace('Z', '+00:00')).replace(tzinfo=None):
\* the datetime keeps the whole ticks and the fraction
created_date(purchase) == purchase.createdDate

_extract_skybox_metadata(purchase) ==
    [ id             |-> purchase.id,
      amount         |-> purchase.total,
      created_date   |-> created_date(purchase),
      is_automated   |-> purchase.createdBy \in {"SeatScouts", "Lotus Tickets Sale Tracking"},
      external_ref   |-> purchase.externalRef,
      internal_notes |-> purchase.internalNotes,
      last_four      |-> _extract_last_four(purchase.internalNotes) ]

\* mutant: the reference is looked for in the description only
_match_by_order_number_desc_only(purchase_meta, reveal_txn) ==
    LET order_num == purchase_meta.external_ref
        desc      == reveal_txn.description
    IN  IF ~Truthy(order_num) THEN <<>>
        ELSE IF /\ IsSubstr(Str(order_num), Str(desc))
                /\ Abs(reveal_amount(reveal_txn) - purchase_meta.amount) < ORDER_AMOUNT_TOL
             THEN << [ skybox_id        |-> purchase_meta.id,
                       reveal_id        |-> reveal_txn.id,
                       confidence_score |-> ORDER_CONFIDENCE,
                       match_criteria   |-> <<"order_number", "amount">>,
                       metadata         |-> [order_number |-> order_num, amount_diff |-> 0] ] >>
             ELSE <<>>

_match_by_order_number(purchase_meta, reveal_txn) ==
    LET order_num == purchase_meta.external_ref
        desc      == reveal_txn.description
        ext_desc  == IF Truthy(reveal_txn.extended_description)
                     THEN reveal_txn.extended_description ELSE <<>>
    IN  IF ~Truthy(order_num) THEN <<>>
        ELSE IF /\ \/ IsSubstr(Str(order_num), Str(desc))
                   \/ IsSubstr(Str(order_num), Str(ext_desc))
                /\ amount_within(reveal_txn, purchase_meta.amount, ORDER_AMOUNT_TOL)
             THEN << [ skybox_id        |-> purchase_meta.id,
                       reveal_id        |-> reveal_txn.id,
                       confidence_score |-> ORDER_CONFIDENCE,
                       match_criteria   |-> <<"order_number", "amount">>,
                       metadata         |-> [order_number |-> order_num, amount_diff |-> 0] ] >>
             ELSE <<>>

\* mutant: an exact amount weighs 0.50
amount_signal_w50(purchase_meta, reveal_txn) ==
    LET amount_diff == Abs(reveal_amount(reveal_txn) - purchase_meta.amount)
    IN  IF amount_diff < EXACT_AMOUNT_TOL
        THEN [tags |-> <<"amount_exact">>, w |-> 50, reject |-> FALSE]
        ELSE IF amount_diff < CLOSE_AMOUNT_TOL
        THEN [tags |-> <<"amount_close">>, w |-> W_AMOUNT_CLOSE, reject |-> FALSE]
        ELSE [tags |-> <<>>, w |-> 0, reject |-> TRUE]

\* mutant: the exact tier is tested against the tolerance of the close tier
amount_signal_tiers_confused(purchase_meta, reveal_txn) ==
    LET amount_diff == Abs(reveal_amount(reveal_txn) - purchase_meta.amount)
    IN  IF amount_diff <= CLOSE_AMOUNT_TOL
        THEN [tags |-> <<"amount_exact">>, w |-> W_AMOUNT_EXACT, reject |-> FALSE]
        ELSE [tags |-> <<>>, w |-> 0, reject |-> TRUE]

\* the amount step of the multi-criteria strategy: the tag and weight it adds,
\* no tag when the strategy returns None there
amount_signal(purchase_meta, reveal_txn) ==
    IF amount_within(reveal_txn, purchase_meta.amount, EXACT_AMOUNT_TOL)
    THEN [tags |-> <<"amount_exact">>, w |-> W_AMOUNT_EXACT, reject |-> FALSE]
    ELSE IF amount_within(reveal_txn, purchase_meta.amount, CLOSE_AMOUNT_TOL)
    THEN [tags |-> <<"amount_close">>, w |-> W_AMOUNT_CLOSE, reject |-> FALSE]
    ELSE [tags |-> <<>>, w |-> 0, reject |-> TRUE]

\* date_diff = abs((reveal_date - purchase_meta['created_date']).days)
\* transaction dates are whole ticks, so a fraction in created makes the
\* difference end one tick lower before .days rounds it down
date_diff(created, txn_date) ==
    Abs(Days(txn_date - iso_ticks(created) - iso_frac(created)))

\* mutant: the same-day weight is 0.40, so that the weights add up to 1.0
date_signal_heavy(purchase_meta, reveal_txn) ==
    LET dd == date_diff(purchase_meta.created_date, reveal_txn.date)
    IN  IF dd <= SAME_DAY_MAX
        THEN [tags |-> <<"date_same_day">>, w |-> 40]
        ELSE IF dd <= NEAR_DAY_MAX
        THEN [tags |-> <<"date_within_3_days">>, w |-> W_DATE_WITHIN_3]
        ELSE [tags |-> <<>>, w |-> 0]

date_signal(purchase_meta, reveal_txn) ==
    LET dd == date_diff(purchase_meta.created_date, reveal_txn.date)
    IN  IF dd <= SAME_DAY_MAX
        THEN [tags |-> <<"date_same_day">>, w |-> W_DATE_SAME_DAY]
        ELSE IF dd <= NEAR_DAY_MAX
        THEN [tags |-> <<"date_within_3_days">>, w |-> W_DATE_WITHIN_3]
        ELSE [tags |-> <<>>, w |-> 0]

\* mutant: the tag is appended but the score is not increased
last_four_signal_no_weight(purchase_meta, reveal_txn) ==
    LET reveal_last4 == IF Truthy(reveal_txn.last_four)
                        THEN reveal_txn.last_four ELSE reveal_txn.sub_account
    IN  IF /\ Truthy(purchase_meta.last_four)
           /\ IsSubstr(purchase_meta.last_four, Str(reveal_last4))
        THEN [tags |-> <<"last_four">>, w |-> 0]
        ELSE [tags |-> <<>>, w |-> 0]

\* mutant: the test that the purchase has last-4 digits is missing
last_four_signal_unguarded(purchase_meta, reveal_txn) ==
    LET reveal_last4 == IF Truthy(reveal_txn.last_four)
                        THEN reveal_txn.last_four ELSE reveal_txn.sub_account
    IN  IF IsSubstr(Str(purchase_meta.last_four), Str(reveal_last4))
        THEN [tags |-> <<"last_four">>, w |-> W_LAST_FOUR]
        ELSE [tags |-> <<>>, w |-> 0]

last_four_signal(purchase_meta, reveal_txn) ==
    LET reveal_last4 == IF Truthy(reveal_txn.last_four)
                        THEN reveal_txn.last_four ELSE reveal_txn.sub_account
    IN  IF /\ Truthy(purchase_meta.last_four)
           /\ IsSubstr(purchase_meta.last_four, Str(reveal_last4))
        THEN [tags |-> <<"last_four">>, w |-> W_LAST_FOUR]
        ELSE [tags |-> <<>>, w |-> 0]

\* the local variables score and criteria_met when line 135 is reached
score(purchase_meta, reveal_txn) ==
    amount_signal(purchase_meta, reveal_txn).w
    + date_signal(purchase_meta, reveal_txn).w
    + last_four_signal(purchase_meta, reveal_txn).w

\* mutant: the date tag is appended before the amount tag
criteria_met_date_first(purchase_meta, reveal_txn) ==
    date_signal(purchase_meta, reveal_txn).tags
    \o amount_signal(purchase_meta, reveal_txn).tags
    \o last_four_signal(purchase_meta, reveal_txn).tags

criteria_met(purchase_meta, reveal_txn) ==
    amount_signal(purchase_meta, reveal_txn).tags
    \o date_signal(purchase_meta, reveal_txn).tags
    \o last_four_signal(purchase_meta, reveal_txn).tags

\* mutant: the strategy returns a result from a score of 0.70
_match_by_multiple_criteria_floor70(purchase_meta, reveal_txn) ==
    IF amount_signal(purchase_meta, reveal_txn).reject THEN <<>>
    ELSE IF score(purchase_meta, reveal_txn) >= 70
    THEN << [ skybox_id        |-> purchase_meta.id,
              reveal_id        |-> reveal_txn.id,
              confidence_score |-> score(purchase_meta, reveal_txn),
              match_criteria   |-> criteria_met(purchase_meta, reveal_txn),
              metadata         |-> [ amount_diff  |-> Abs(reveal_amount(reveal_txn)
                                                          - purchase_meta.amount),
                                     is_automated |-> purchase_meta.is_automated ] ] >>
    ELSE <<>>

_match_by_multiple_criteria(purchase_meta, reveal_txn) ==
    IF amount_signal(purchase_meta, reveal_txn).reject THEN <<>>
    ELSE IF score(purchase_meta, reveal_txn) >= STRATEGY_FLOOR
    THEN << [ skybox_id        |-> purchase_meta.id,
              reveal_id        |-> reveal_txn.id,
              confidence_score |-> score(purchase_meta, reveal_txn),
              match_criteria   |-> criteria_met(purchase_meta, reveal_txn),
              metadata         |-> [ amount_diff  |-> Abs(reveal_amount(reveal_txn)
                                                          - purchase_meta.amount),
                                     is_automated |-> purchase_meta.is_automated ] ] >>
    ELSE <<>>

_match_by_email_metadata(purchase_meta, reveal_txn) == <<>>

\* mutant: the multi-criteria strategy is tried before the order-number one
strategy_result_multi_first(purchase_meta, reveal_txn) ==
    IF _match_by_multiple_criteria(purchase_meta, reveal_txn) # <<>>
    THEN _match_by_multiple_criteria(purchase_meta, reveal_txn)
    ELSE IF _match_by_order_number(purchase_meta, reveal_txn) # <<>>
    THEN _match_by_order_number(purchase_meta, reveal_txn)
    ELSE _match_by_email_metadata(purchase_meta, reveal_txn)

\* the body of the for loop of match_transactions: what one transaction
\* appends to the list candidates
strategy_result(purchase_meta, reveal_txn) ==
    IF _match_by_order_number(purchase_meta, reveal_txn) # <<>>
    THEN _match_by_order_number(purchase_meta, reveal_txn)
    ELSE IF _match_by_multiple_criteria(purchase_meta, reveal_txn) # <<>>
    THEN _match_by_multiple_criteria(purchase_meta, reveal_txn)
    ELSE _match_by_email_metadata(purchase_meta, reveal_txn)

RECURSIVE candidate_results(_, _)
candidate_results(purchase_meta, reveal_transactions) ==
    IF reveal_transactions = <<>> THEN <<>>
    ELSE strategy_result(purchase_meta, Head(reveal_transactions))
         \o candidate_results(purchase_meta, Tail(reveal_transactions))

\* mutant: the first result is taken instead of the best
max_by_confidence_first(results) == results[1]

\* mutant: of the results with the greatest key the last one is taken
RECURSIVE max_by_confidence_last(_)
max_by_confidence_last(results) ==
    IF Len(results) = 1 THEN results[1]
    ELSE LET rest == max_by_confidence_last(Tail(results))
         IN  IF rest.confidence_score >= Head(results).confidence_score
             THEN rest ELSE Head(results)

\* max(candidates, key=lambda x: x.confidence_score): the first element
\* with the greatest key
RECURSIVE max_by_confidence(_)
max_by_confidence(results) ==
    IF Len(results) = 1 THEN results[1]
    ELSE LET rest == max_by_confidence(Tail(results))
         IN  IF rest.confidence_score > Head(results).confidence_score
             THEN rest ELSE Head(results)

match_transactions(skybox_purchase, reveal_transactions) ==
    LET purchase_meta == _extract_skybox_metadata(skybox_purchase)
        candidates    == candidate_results(purchase_meta, reveal_transactions)
    IN  IF candidates # <<>>
           /\ max_by_confidence(candidates).confidence_score >= ACCEPT_FLOOR
        THEN << max_by_confidence(candidates) >>
        ELSE <<>>

\* ------------------------------------------------------------------
\* Batch processing
\* ------------------------------------------------------------------
\* mutant: one of the two conditions is enough
in_window_or(purchase, txn) ==
    LET amount_match == Abs(reveal_amount(txn) - purchase.total) < FILTER_AMOUNT_TOL
        date_match   == date_diff(created_date(purchase), txn.date) <= FILTER_DAY_MAX
    IN  amount_match \/ date_match

\* mutant: the transaction amount is compared without the division by 100
in_window_unscaled(purchase, txn) ==
    LET amount_match == Abs(Abs(txn.amount) * MillsPerMinor * 100 - purchase.total)
                            < FILTER_AMOUNT_TOL
        date_match   == date_diff(created_date(purchase), txn.date) <= FILTER_DAY_MAX
    IN  amount_match /\ date_match

in_window(purchase, txn) ==
    LET amount_match == amount_within(txn, purchase.total, FILTER_AMOUNT_TOL)
        date_match   == date_diff(created_date(purchase), txn.date) <= FILTER_DAY_MAX
    IN  amount_match /\ date_match

RECURSIVE _filter_candidate_transactions(_, _)
_filter_candidate_transactions(purchase, all_transactions) ==
    IF all_transactions = <<>> THEN <<>>
    ELSE (IF in_window(purchase, Head(all_transactions))
          THEN << Head(all_transactions) >> ELSE <<>>)
         \o _filter_candidate_transactions(purchase, Tail(all_transactions))

\* sorted(purchases, key=lambda x: x['createdDate']): a stable sort on the
\* text.  sort_key is the rank of the text in the order of str: texts of
\* different ticks differ in a digit and compare as the ticks do; texts of
\* the same tick differ where one has '.' and the other 'Z', and '.' < 'Z';
\* '' is below every text and 'N/A' above every text that starts with a digit.
sort_key(purchase) ==
    LET text == purchase.createdDate
    IN  IF text = EmptyDate THEN -1
        ELSE IF text = NotADate THEN 4 * FracForm
        ELSE 2 * iso_ticks(text) + (1 - iso_frac(text))

RECURSIVE insert_sorted(_, _)
insert_sorted(p, sorted) ==
    IF sorted = <<>> THEN << p >>
    ELSE IF sort_key(p) < sort_key(Head(sorted))
    THEN << p >> \o sorted
    ELSE << Head(sorted) >> \o insert_sorted(p, Tail(sorted))

RECURSIVE sorted_by_created(_)
sorted_by_created(ps) ==
    IF ps = <<>> THEN <<>>
    ELSE insert_sorted(ps[Len(ps)], sorted_by_created(SubSeq(ps, 1, Len(ps) - 1)))

\* mutant: the else is missing, every purchase is appended to unmatched
RECURSIVE batch_loop_no_else(_, _, _, _)
batch_loop_no_else(ps, reveal_transactions, m, u) ==
    IF ps = <<>> THEN [matched |-> m, unmatched |-> u]
    ELSE LET purchase     == Head(ps)
             cands        == _filter_candidate_transactions(purchase, reveal_transactions)
             match_result == match_transactions(purchase, cands)
         IN  batch_loop_no_else(Tail(ps), reveal_transactions,
                                m \o match_result, Append(u, purchase))

\* mutant: a matched transaction is taken out of the pool of the purchases
\* that follow
RECURSIVE batch_loop_consume(_, _, _, _)
batch_loop_consume(ps, reveal_transactions, m, u) ==
    IF ps = <<>> THEN [matched |-> m, unmatched |-> u]
    ELSE LET purchase     == Head(ps)
             cands        == _filter_candidate_transactions(purchase, reveal_transactions)
             match_result == match_transactions(purchase, cands)
         IN  IF match_result # <<>>
             THEN batch_loop_consume(
                      Tail(ps),
                      SelectSeq(reveal_transactions,
                                LAMBDA t : t.id # match_result[1].reveal_id),
                      m \o match_result, u)
             ELSE batch_loop_consume(Tail(ps), reveal_transactions, m,
                                     Append(u, purchase))

\* matched/unmatched after the for loop over the purchases ps, starting
\* from the lists m and u
RECURSIVE batch_loop(_, _, _, _)
batch_loop(ps, reveal_transactions, m, u) ==
    IF ps = <<>> THEN [matched |-> m, unmatched |-> u]
    ELSE LET purchase     == Head(ps)
             cands        == _filter_candidate_transactions(purchase, reveal_transactions)
             match_result == match_transactions(purchase, cands)
         IN  IF match_result # <<>>
             THEN batch_loop(Tail(ps), reveal_transactions, m \o match_result, u)
             ELSE batch_loop(Tail(ps), reveal_transactions, m, Append(u, purchase))

\* mutant: the purchases are taken in the order of the input
batch_match_transactions_unsorted(skybox_purchases_, reveal_transactions_) ==
    batch_loop(skybox_purchases_, reveal_transactions_, <<>>, <<>>)

batch_match_transactions(skybox_purchases_, reveal_transactions_) ==
    batch_loop(sorted_by_created(skybox_purchases_), reveal_transactions_, <<>>, <<>>)

\* ------------------------------------------------------------------
\* Where the engine raises: datetime.fromisoformat raises ValueError on a
\* text that is not an ISO date.
\* ------------------------------------------------------------------
fromisoformat_raises(text) == text \in {EmptyDate, NotADate}

\* _filter_candidate_transactions parses the purchase's createdDate before
\* the loop and the date of every transaction inside it, before any test
filter_raises(purchase, all_transactions) ==
    \/ fromisoformat_raises(purchase.createdDate)
    \/ \E k \in 1..Len(all_transactions) : fromisoformat_raises(all_transactions[k].date)

\* match_transactions parses the createdDate in _extract_skybox_metadata,
\* and the date of a transaction in _match_by_multiple_criteria when the
\* order-number strategy gave no result and the amount tier did not reject
match_raises(skybox_purchase, reveal_transactions) ==
    \/ fromisoformat_raises(skybox_purchase.createdDate)
    \/ \E k \in 1..Len(reveal_transactions) :
          LET purchase_meta == _extract_skybox_metadata(skybox_purchase)
              reveal_txn    == reveal_transactions[k]
          IN  /\ _match_by_order_number(purchase_meta, reveal_txn) = <<>>
              /\ ~amount_signal(purchase_meta, reveal_txn).reject
              /\ fromisoformat_raises(reveal_txn.date)

\* an iteration of the batch loop raises
iteration_raises(purchase, reveal_transactions) ==
    \/ filter_raises(purchase, reveal_transactions)
    \/ match_raises(purchase,
                    _filter_candidate_transactions(purchase, reveal_transactions))

\* the batch loop raises at some purchase of the list
batch_raises(ps, reveal_transactions) ==
    \E k \in 1..Len(ps) : iteration_raises(ps[k], reveal_transactions)

\* ------------------------------------------------------------------
\* Inputs
\* ------------------------------------------------------------------
Day0 == 10 * TicksPerDay

REF == <<"O", "7">>
D1234 == <<"1", "2", "3", "4">>

Totals == {100000, 100005}
CreatedDates == {Day0, Day0 + TicksPerDay - 1}
ExternalRefs == {NoneVal, <<>>, REF}
Notes ==
    { NoneVal,
      NonText,
      <<"n", "o">>,
      <<"C", "C", "#", "1", "2", "3", "4">>,
      <<"#", "5", "6", "7", "8", " ", "c", "c", " ", "1", "2", "3", "4">> }

PurchaseShapes ==
    [ id : {1}, total : Totals, createdDate : CreatedDates,
      createdBy : {"SeatScouts"}, externalRef : ExternalRefs, internalNotes : Notes ]

Amounts == {10000, -10000, 10001, 10100, -10500}
TxnDates ==
    { Day0 + d : d \in { 0, TicksPerDay - 1, -1,
                         4 * TicksPerDay - 1, 4 * TicksPerDay, -3 * TicksPerDay,
                         8 * TicksPerDay - 1, 8 * TicksPerDay,
                         -7 * TicksPerDay, -7 * TicksPerDay - 1 } }
DescRef  == [d |-> <<"P", " ", "O", "7">>, x |-> NoneVal]
DescXRef == [d |-> <<"O", "8">>, x |-> <<"O", "7", "x">>]
DescNone == [d |-> <<"O", "8">>, x |-> NoneVal]
AcctHit  == [l |-> NoneVal, s |-> <<"V", "1", "2", "3", "4">>]
AcctMiss == [l |-> NoneVal, s |-> NoneVal]
Descriptions == {DescRef, DescXRef, DescNone, [d |-> NoneVal, x |-> <<>>]}
Accounts == {AcctHit, AcctMiss, [l |-> D1234, s |-> <<>>],
             [l |-> <<"5", "6", "7", "8">>, s |-> D1234]}

Txn(tid, a, dt, de, ac) ==
    [ id |-> tid, amount |-> a, date |-> dt,
      description |-> de.d, extended_description |-> de.x,
      last_four |-> ac.l, sub_account |-> ac.s ]

\* every combination of the field values, as a pool of one transaction
SinglePools ==
    { << Txn(901, a, dt, de, ac) >> :
        a \in Amounts, dt \in TxnDates, de \in Descriptions, ac \in Accounts }

\* the transactions the pools of several transactions are made of
TxnShapes ==
    { Txn(0, 10000, Day0, DescRef, AcctHit),
      Txn(0, 10000, Day0, DescNone, AcctHit),
      Txn(0, 10000, Day0 + 2 * TicksPerDay, DescNone, AcctHit),
      Txn(0, 10000, Day0, DescNone, AcctMiss),
      Txn(0, 10050, Day0, DescNone, AcctHit),
      Txn(0, 10000, Day0 + 9 * TicksPerDay, DescRef, AcctMiss),
      Txn(0, -10000, Day0 - 1, DescXRef, AcctMiss),
      Txn(0, -10500, Day0, DescNone, AcctHit) }

\* sequences of at most n elements of S
SeqsUpTo(S, n) == UNION { [1..k -> S] : k \in 0..n }

\* ids are unique: the id of a record is given by its place in the input
WithIds(recs, base) == [k \in 1..Len(recs) |-> [recs[k] EXCEPT !.id = base + k]]

Pools == { WithIds(ts, 900) : ts \in SeqsUpTo(TxnShapes, MaxPool) }

PurchaseUniverse ==
    { [ id |-> 0, total |-> 100000, createdDate |-> Day0, createdBy |-> "SeatScouts",
        externalRef |-> REF, internalNotes |-> <<"C", "C", "#", "1", "2", "3", "4">> ],
      [ id |-> 0, total |-> 100000, createdDate |-> Day0 + TicksPerDay - 1,
        createdBy |-> "ops", externalRef |-> NoneVal,
        internalNotes |-> <<"c", "c", " ", "1", "2", "3", "4">> ],
      [ id |-> 0, total |-> 100005, createdDate |-> Day0 + TicksPerDay,
        createdBy |-> "ops", externalRef |-> <<>>, internalNotes |-> NoneVal ],
      [ id |-> 0, total |-> 100000, createdDate |-> Day0 - 3 * TicksPerDay,
        createdBy |-> "SeatScouts", externalRef |-> NoneVal, internalNotes |-> NonText ],
      [ id |-> 0, total |-> 200000, createdDate |-> Day0, createdBy |-> "ops",
        externalRef |-> REF, internalNotes |-> <<"n", "o">> ] }

PurchaseLists == { WithIds(ps, 0) : ps \in SeqsUpTo(PurchaseUniverse, MaxPurchases) }

\* messages of the exceptions the collaborators raise
Messages == {"timeout", "HTTP 500"}

\* ------------------------------------------------------------------
\* State
\* ------------------------------------------------------------------
VARIABLES
    pc,                \* position in the running call
    skybox_rows,       \* the purchases the caller or the Skybox client supplies
    reveal_rows,       \* the transactions the caller or the Reveal client supplies
    dry_run,           \* ReconciliationService.dry_run
    purchases,         \* local of reconcile_transactions: <<>> while unbound, else <<list>>
    transactions,      \* local of reconcile_transactions: <<>> while unbound, else <<list>>
    sorted_purchases,  \* local of _batch_match
    i,                 \* position of the for loop of _batch_match
    matched,           \* matched results so far
    unmatched,         \* unmatched purchases so far
    candidates,        \* last output of _filter_candidate_transactions
    match_result,      \* last output of match_transactions
    scored,            \* the list candidates of that call of match_transactions
    errors,            \* local of reconcile_transactions
    matches,           \* local of reconcile_transactions
    result,            \* the ReconciliationResult returned: <<>> until the call returns
    raised,            \* the step that raised, "" when none did
    engine_calls,      \* number of calls of match_transactions made by the run
    writes,            \* the calls made to the write collaborators, in order
    success_count      \* local of _update_systems

vars == << pc, skybox_rows, reveal_rows, dry_run, purchases, transactions,
           sorted_purchases, i, matched, unmatched, candidates, match_result,
           scored, errors, matches, result, raised, engine_calls, writes,
           success_count >>

locals_init ==
    /\ purchases = <<>>
    /\ transactions = <<>>
    /\ sorted_purchases = <<>>
    /\ i = 0
    /\ matched = <<>>
    /\ unmatched = <<>>
    /\ candidates = <<>>
    /\ match_result = <<>>
    /\ scored = <<>>
    /\ errors = <<>>
    /\ matches = <<>>
    /\ result = <<>>
    /\ raised = ""
    /\ engine_calls = 0
    /\ writes = <<>>
    /\ success_count = 0

\* ------------------------------------------------------------------
\* ReconciliationService.reconcile_transactions, and the module-level
\* batch_match_transactions, over the rows the collaborators hold
\* ------------------------------------------------------------------
Init ==
    /\ pc = "start"
    /\ skybox_rows \in PurchaseLists
    /\ reveal_rows \in Pools
    /\ dry_run \in BOOLEAN
    /\ locals_init

\* mutant: the handler reports the counts but does not record the error
except_result_no_append(msg) ==
    [ total_purchases     |-> IF purchases # <<>> THEN Len(purchases[1]) ELSE 0,
      total_transactions  |-> IF transactions # <<>> THEN Len(transactions[1]) ELSE 0,
      matches_found       |-> Len(matches),
      matches_updated     |-> 0,
      unmatched_purchases |-> 0,
      errors              |-> errors,
      matches             |-> matches ]

\* mutant: the handler counts the matches made before the failure
except_result_partial(msg) ==
    [ total_purchases     |-> IF purchases # <<>> THEN Len(purchases[1]) ELSE 0,
      total_transactions  |-> IF transactions # <<>> THEN Len(transactions[1]) ELSE 0,
      matches_found       |-> Len(matched),
      matches_updated     |-> 0,
      unmatched_purchases |-> 0,
      errors              |-> Append(errors, msg),
      matches             |-> matches ]

\* except Exception as e: errors.append(str(e)); return ReconciliationResult(...)
except_result(msg) ==
    [ total_purchases     |-> IF purchases # <<>> THEN Len(purchases[1]) ELSE 0,
      total_transactions  |-> IF transactions # <<>> THEN Len(transactions[1]) ELSE 0,
      matches_found       |-> Len(matches),
      matches_updated     |-> 0,
      unmatched_purchases |-> 0,
      errors              |-> Append(errors, msg),
      matches             |-> matches ]

\* mutant: no handler, the exception ends the call without a result
Raise_uncaught(step, msg) ==
    /\ raised' = step
    /\ errors' = errors
    /\ result' = <<>>
    /\ pc' = "done"

\* a step of the try block raises: the handler runs and the call returns
Raise(step, msg) ==
    /\ raised' = step
    /\ errors' = Append(errors, msg)
    /\ result' = << except_result(msg) >>
    /\ pc' = "done"

\* import ipdb; ipdb.set_trace(): the import fails where ipdb is not
\* installed, the debugger raises BdbQuit when the operator quits it, and
\* the run goes on when the operator continues
Breakpoint ==
    /\ pc = "start"
    /\ \/ /\ pc' = "fetch_purchases"
          /\ UNCHANGED << errors, result, raised >>
       \/ \E msg \in {"No module named 'ipdb'", ""} : Raise("breakpoint", msg)
    /\ UNCHANGED << skybox_rows, reveal_rows, dry_run, purchases, transactions,
                    sorted_purchases, i, matched, unmatched, candidates,
                    match_result, scored, matches, engine_calls, writes, success_count >>

\* purchases = self.skybox.get_unreconciled_purchases(start_date, end_date)
FetchPurchases ==
    /\ pc = "fetch_purchases"
    /\ \/ /\ purchases' = << skybox_rows >>
          /\ pc' = "fetch_transactions"
          /\ UNCHANGED << errors, result, raised >>
       \/ /\ \E msg \in Messages : Raise("fetch_purchases", msg)
          /\ UNCHANGED purchases
    /\ UNCHANGED << skybox_rows, reveal_rows, dry_run, transactions,
                    sorted_purchases, i, matched, unmatched, candidates,
                    match_result, scored, matches, engine_calls, writes, success_count >>

\* transactions = self.reveal.get_unmatched_transactions(start_date, end_date)
FetchTransactions ==
    /\ pc = "fetch_transactions"
    /\ \/ /\ transactions' = << reveal_rows >>
          /\ pc' = "batch_match"
          /\ UNCHANGED << errors, result, raised >>
       \/ /\ \E msg \in Messages : Raise("fetch_transactions", msg)
          /\ UNCHANGED transactions
    /\ UNCHANGED << skybox_rows, reveal_rows, dry_run, purchases,
                    sorted_purchases, i, matched, unmatched, candidates,
                    match_result, scored, matches, engine_calls, writes, success_count >>

\* mutant: the list of the caller is sorted in place
BatchMatchEnter_sort_in_place ==
    /\ pc = "batch_match"
    /\ sorted_purchases' = sorted_by_created(purchases[1])
    /\ purchases' = << sorted_by_created(purchases[1]) >>
    /\ skybox_rows' = sorted_by_created(purchases[1])
    /\ i' = 1
    /\ matched' = <<>>
    /\ unmatched' = <<>>
    /\ pc' = "loop"
    /\ UNCHANGED << reveal_rows, dry_run, transactions, candidates, match_result,
                    scored, errors, matches, result, raised, engine_calls, writes,
                    success_count >>

\* _batch_match, up to the for loop
BatchMatchEnter ==
    /\ pc = "batch_match"
    /\ sorted_purchases' = sorted_by_created(purchases[1])
    /\ i' = 1
    /\ matched' = <<>>
    /\ unmatched' = <<>>
    /\ pc' = "loop"
    /\ UNCHANGED << skybox_rows, reveal_rows, dry_run, purchases, transactions,
                    candidates, match_result, scored, errors, matches, result, raised,
                    engine_calls, writes, success_count >>

\* str(e) of the ValueError of datetime.fromisoformat
IsoformatMessage(text) ==
    IF text = EmptyDate THEN "Invalid isoformat string: ''"
    ELSE "Invalid isoformat string: 'N/A'"

\* the text on which the iteration over purchase raises: the createdDate is
\* parsed first, then the dates of the transactions in the order of the pool
raising_text(purchase, all_transactions) ==
    IF fromisoformat_raises(purchase.createdDate) THEN purchase.createdDate
    ELSE LET k == CHOOSE k \in 1..Len(all_transactions) :
                      /\ fromisoformat_raises(all_transactions[k].date)
                      /\ \A j \in 1..(k - 1) :
                            ~fromisoformat_raises(all_transactions[j].date)
         IN  all_transactions[k].date

\* one iteration of the for loop of _batch_match; an exception raised by
\* the filter or the engine leaves _batch_match and reaches the handler of
\* reconcile_transactions
BatchMatchStep ==
    /\ pc = "loop"
    /\ i <= Len(sorted_purchases)
    /\ LET purchase == sorted_purchases[i]
           cands    == _filter_candidate_transactions(purchase, transactions[1])
           res      == match_transactions(purchase, cands)
       IN  IF iteration_raises(purchase, transactions[1])
           THEN /\ Raise("batch_match",
                         IsoformatMessage(raising_text(purchase, transactions[1])))
                /\ engine_calls' = IF filter_raises(purchase, transactions[1])
                                   THEN engine_calls ELSE engine_calls + 1
                /\ UNCHANGED << i, candidates, match_result, scored, matched,
                                unmatched >>
           ELSE /\ candidates' = cands
                /\ match_result' = res
                /\ scored' = candidate_results(_extract_skybox_metadata(purchase), cands)
                /\ IF res # <<>>
                   THEN matched' = matched \o res /\ UNCHANGED unmatched
                   ELSE unmatched' = Append(unmatched, purchase) /\ UNCHANGED matched
                /\ engine_calls' = engine_calls + 1
                /\ i' = i + 1
                /\ UNCHANGED << pc, errors, result, raised >>
    /\ UNCHANGED << skybox_rows, reveal_rows, dry_run, purchases, transactions,
                    sorted_purchases, matches, writes, success_count >>

\* the list m.* for m in matched of step 4
serialized(ms) ==
    [k \in 1..Len(ms) |->
        [ skybox_id  |-> ms[k].skybox_id,
          reveal_id  |-> ms[k].reveal_id,
          confidence |-> ms[k].confidence_score,
          criteria   |-> ms[k].match_criteria,
          metadata   |-> ms[k].metadata ]]

\* mutant: the matches are counted as applied whatever dry_run is
updated_count_applied(dry_run_, matched_) == Len(matched_)

\* Step 4: updated_count = 0; the branch on self.dry_run that calls
\* _update_systems is commented out
updated_count(dry_run_, matched_) == 0

\* _batch_match returns; steps 4 and 5 of reconcile_transactions.  The
\* update of the systems is commented out, so updated_count stays 0.  The
\* success rate logged after the result is built divides by total_purchases.
BuildResult ==
    /\ pc = "loop"
    /\ i > Len(sorted_purchases)
    /\ matches' = serialized(matched)
    /\ IF Len(purchases[1]) = 0
       THEN /\ raised' = "success_rate"
            /\ errors' = Append(errors, "division by zero")
            /\ result' = << [ except_result("division by zero")
                                EXCEPT !.matches_found = Len(serialized(matched)),
                                       !.matches = serialized(matched) ] >>
       ELSE /\ result' = << [ total_purchases     |-> Len(purchases[1]),
                              total_transactions  |-> Len(transactions[1]),
                              matches_found       |-> Len(matched),
                              matches_updated     |-> updated_count(dry_run, matched),
                              unmatched_purchases |-> Len(unmatched),
                              errors              |-> errors,
                              matches             |-> serialized(matched) ] >>
            /\ UNCHANGED << errors, raised >>
    /\ pc' = "done"
    /\ UNCHANGED << skybox_rows, reveal_rows, dry_run, purchases, transactions,
                    sorted_purchases, i, matched, unmatched, candidates,
                    match_result, scored, engine_calls, writes, success_count >>

\* a call of the module-level batch_match_transactions(skybox_rows, reveal_rows);
\* it has no handler: an exception raised in the loop leaves the call
CallBatchMatchTransactions ==
    /\ pc = "start"
    /\ IF batch_raises(skybox_rows, reveal_rows)
       THEN /\ pc' = "batch_raised"
            /\ UNCHANGED << matched, unmatched >>
       ELSE /\ LET out == batch_match_transactions(skybox_rows, reveal_rows)
               IN  /\ matched' = out.matched
                   /\ unmatched' = out.unmatched
            /\ pc' = "batch_done"
    /\ UNCHANGED << skybox_rows, reveal_rows, dry_run, purchases, transactions,
                    sorted_purchases, i, candidates, match_result, scored, errors,
                    matches, result, raised, engine_calls, writes, success_count >>

Next ==
    \/ Breakpoint
    \/ FetchPurchases
    \/ FetchTransactions
    \/ BatchMatchEnter
    \/ BatchMatchStep
    \/ BuildResult
    \/ CallBatchMatchTransactions

Spec == Init /\ [][Next]_vars

\* ------------------------------------------------------------------
\* The same calls over rows as the two APIs may deliver them: createdDate
\* with or without a fractional part, dates that are not ISO dates, notes
\* that are missing or not text
\* ------------------------------------------------------------------
RawPurchases ==
    { [ id |-> 0, total |-> 100000, createdDate |-> Day0, createdBy |-> "SeatScouts",
        externalRef |-> REF, internalNotes |-> <<"C", "C", "#", "1", "2", "3", "4">> ],
      [ id |-> 0, total |-> 100000, createdDate |-> FracForm + Day0,
        createdBy |-> "SeatScouts", externalRef |-> REF, internalNotes |-> NonText ],
      [ id |-> 0, total |-> 100000, createdDate |-> Day0 + 1, createdBy |-> "ops",
        externalRef |-> NoneVal, internalNotes |-> NoneVal ],
      [ id |-> 0, total |-> 100000, createdDate |-> EmptyDate, createdBy |-> "ops",
        externalRef |-> REF, internalNotes |-> <<"C", "C", "#", "1", "2", "3", "4">> ],
      [ id |-> 0, total |-> 100000, createdDate |-> NotADate, createdBy |-> "ops",
        externalRef |-> REF, internalNotes |-> <<>> ],
      [ id |-> 0, total |-> 100010, createdDate |-> Day0, createdBy |-> "ops",
        externalRef |-> REF, internalNotes |-> <<"C", "C", "#", "1", "2", "3", "4">> ] }

RawTxns ==
    { Txn(0, 10000, Day0, DescRef, AcctHit),
      Txn(0, 10000, Day0, DescNone, AcctHit),
      Txn(0, 10002, Day0, DescNone, AcctHit),
      Txn(0, 10000, EmptyDate, DescRef, AcctHit) }

InitRaw ==
    /\ pc = "start"
    /\ skybox_rows \in { WithIds(ps, 0) : ps \in SeqsUpTo(RawPurchases, MaxPurchases) }
    /\ reveal_rows \in { WithIds(ts, 900) : ts \in SeqsUpTo(RawTxns, MaxPool) }
    /\ dry_run \in BOOLEAN
    /\ locals_init

SpecRaw == InitRaw /\ [][Next]_vars

\* ------------------------------------------------------------------
\* The engine's functions applied to one purchase and one pool
\* ------------------------------------------------------------------
InitEngine ==
    /\ pc = "engine"
    /\ skybox_rows \in { << p >> : p \in PurchaseShapes }
    /\ reveal_rows \in SinglePools \cup Pools
    /\ dry_run = FALSE
    /\ locals_init

\* candidates = _filter_candidate_transactions(purchase, reveal_rows)
ApplyFilter ==
    /\ pc = "engine"
    /\ candidates' = _filter_candidate_transactions(skybox_rows[1], reveal_rows)
    /\ pc' = "filtered"
    /\ UNCHANGED << skybox_rows, reveal_rows, dry_run, purchases, transactions,
                    sorted_purchases, i, matched, unmatched, match_result, scored,
                    errors, matches, result, raised, engine_calls, writes, success_count >>

\* match_result = engine.match_transactions(purchase, reveal_rows)
ApplyMatch ==
    /\ pc = "filtered"
    /\ match_result' = match_transactions(skybox_rows[1], reveal_rows)
    /\ scored' = candidate_results(_extract_skybox_metadata(skybox_rows[1]), reveal_rows)
    /\ engine_calls' = engine_calls + 1
    /\ pc' = "scored"
    /\ UNCHANGED << skybox_rows, reveal_rows, dry_run, purchases, transactions,
                    sorted_purchases, i, matched, unmatched, candidates,
                    errors, matches, result, raised, writes, success_count >>

NextEngine ==
    \/ ApplyFilter
    \/ ApplyMatch

SpecEngine == InitEngine /\ [][NextEngine]_vars

\* ------------------------------------------------------------------
\* ReconciliationService._update_systems(matched) over the matches a batch
\* produced
\* ------------------------------------------------------------------
\* _get_reveal_transaction: the body is pass, the call returns None
_get_reveal_transaction(transaction_id) == NoneVal

\* self.cc_mapping.get(account_name): the entry of the card mapping, None
\* when the account has none
CardInfos == { NoneVal, [credit_card_group_id |-> 1, credit_card_id |-> 2] }

\* what a call of a write collaborator does: it returns True, it returns
\* False (the request failed), or it raises something other than a
\* RequestException
Outcomes == {"true", "false", "raise"}

InitUpdate ==
    /\ pc = "update_loop"
    /\ skybox_rows \in PurchaseLists
    /\ reveal_rows \in Pools
    /\ dry_run = FALSE
    /\ purchases = <<>>
    /\ transactions = <<>>
    /\ sorted_purchases = <<>>
    /\ i = 1
    /\ matched = batch_match_transactions(skybox_rows, reveal_rows).matched
    /\ unmatched = <<>>
    /\ candidates = <<>>
    /\ match_result = <<>>
    /\ scored = <<>>
    /\ errors = <<>>
    /\ matches = <<>>
    /\ result = <<>>
    /\ raised = ""
    /\ engine_calls = 0
    /\ writes = <<>>
    /\ success_count = 0

\* mutant: a match whose transaction is not found ends the loop
UpdateStep_break ==
    /\ pc = "update_loop"
    /\ i <= Len(matched)
    /\ pc' = "update_done"
    /\ UNCHANGED << skybox_rows, reveal_rows, dry_run, purchases, transactions,
                    sorted_purchases, i, matched, unmatched, candidates,
                    match_result, scored, errors, matches, result, raised,
                    engine_calls, writes, success_count >>

\* one iteration of the for loop of _update_systems
UpdateStep ==
    /\ pc = "update_loop"
    /\ i <= Len(matched)
    /\ LET match      == matched[i]
           reveal_txn == _get_reveal_transaction(match.reveal_id)
           skybox_call(o) ==
               [ call |-> "update_purchase_payment", purchase_id |-> match.skybox_id,
                 transaction_id |-> 0, skybox_purchase_id |-> 0, outcome |-> o ]
           reveal_call(o) ==
               [ call |-> "mark_transaction_matched", purchase_id |-> 0,
                 transaction_id |-> match.reveal_id,
                 skybox_purchase_id |-> match.skybox_id, outcome |-> o ]
       IN  IF reveal_txn = NoneVal
           THEN \* continue
                UNCHANGED << writes, success_count >>
           ELSE \E cc_info \in CardInfos, skybox_success \in Outcomes,
                   reveal_success \in Outcomes :
                   IF cc_info = NoneVal
                   THEN \* continue
                        UNCHANGED << writes, success_count >>
                   ELSE IF skybox_success = "raise"
                   THEN /\ writes' = Append(writes, skybox_call(skybox_success))
                        /\ UNCHANGED success_count
                   ELSE /\ writes' = writes \o << skybox_call(skybox_success),
                                                  reveal_call(reveal_success) >>
                        /\ success_count' =
                              IF skybox_success = "true" /\ reveal_success = "true"
                              THEN success_count + 1 ELSE success_count
    /\ i' = i + 1
    /\ UNCHANGED << pc, skybox_rows, reveal_rows, dry_run, purchases, transactions,
                    sorted_purchases, matched, unmatched, candidates,
                    match_result, scored, errors, matches, result, raised,
                    engine_calls >>

\* return success_count
UpdateReturn ==
    /\ pc = "update_loop"
    /\ i > Len(matched)
    /\ pc' = "update_done"
    /\ UNCHANGED << skybox_rows, reveal_rows, dry_run, purchases, transactions,
                    sorted_purchases, i, matched, unmatched, candidates,
                    match_result, scored, errors, matches, result, raised,
                    engine_calls, writes, success_count >>

NextUpdate ==
    \/ UpdateStep
    \/ UpdateReturn

SpecUpdate == InitUpdate /\ [][NextUpdate]_vars

\* ------------------------------------------------------------------
\* Properties
\* ------------------------------------------------------------------
Range(f) == {f[k] : k \in DOMAIN f}

\* the purchase and its metadata in a state of SpecEngine
P1 == skybox_rows[1]
Meta1 == _extract_skybox_metadata(skybox_rows[1])

\* the currency amount of t differs from the total of p by less than tol mills
AmountWithin(p, t, tol) ==
    LET major == Abs(t.amount) * 10
    IN  major - p.total < tol /\ p.total - major < tol

\* the description or the extended description of t contains ref
Mentions(t, ref) ==
    \/ t.description # NoneVal /\ IsSubstr(ref, t.description)
    \/ t.extended_description # NoneVal /\ IsSubstr(ref, t.extended_description)

\* the case of C1: the purchase has a reference that transaction k of
\* the pool mentions, and their amounts agree within 0.01
C1_Case(k) ==
    /\ P1.externalRef # NoneVal
    /\ P1.externalRef # <<>>
    /\ Mentions(reveal_rows[k], P1.externalRef)
    /\ AmountWithin(P1, reveal_rows[k], 10)

\* C1: when the purchase has a non-empty external reference and the pool
\* holds a transaction that mentions it in its description or extended
\* description and whose amount is within 0.01 of the total, then
\* match_transactions returns a result of confidence 1.0 whose criteria
\* contain order_number.
C1_OrderNumberMatch ==
    (pc = "scored" /\ \E k \in 1..Len(reveal_rows) : C1_Case(k))
        => /\ match_result # <<>>
           /\ match_result[1].confidence_score = 100
           /\ "order_number" \in Range(match_result[1].match_criteria)

\* the case of C1 with the reference in the extended description only and a
\* second transaction in the pool ahead of it
C1_Witness ==
    /\ pc = "scored"
    /\ Len(reveal_rows) = 2
    /\ C1_Case(2)
    /\ ~IsSubstr(P1.externalRef, Str(reveal_rows[2].description))
    /\ match_result # <<>>
    /\ match_result[1].reveal_id = reveal_rows[2].id

\* the case of C2: transaction k is 1.00 or more away from the total and
\* the order-number strategy yields nothing for it
C2_Case(k) ==
    /\ ~AmountWithin(P1, reveal_rows[k], 1000)
    /\ _match_by_order_number(Meta1, reveal_rows[k]) = <<>>

\* C2: a transaction whose amount is 1.00 or more away from the purchase
\* total, and for which the order-number strategy does not succeed, is
\* rejected by the multi-criteria strategy and is never the transaction of
\* the match returned, whatever its date and last-4 signals are.
C2_FarAmountNeverMatches ==
    pc = "scored" =>
        \A k \in 1..Len(reveal_rows) :
            C2_Case(k) =>
                /\ _match_by_multiple_criteria(Meta1, reveal_rows[k]) = <<>>
                /\ \A r \in Range(scored) \cup Range(match_result) :
                       r.reveal_id # reveal_rows[k].id

\* a far transaction with the same-day and last-4 signals, in a pool whose
\* other transaction is matched
C2_Witness ==
    /\ pc = "scored"
    /\ Len(reveal_rows) = 2
    /\ C2_Case(1)
    /\ date_signal(Meta1, reveal_rows[1]).tags = <<"date_same_day">>
    /\ last_four_signal(Meta1, reveal_rows[1]).tags = <<"last_four">>
    /\ match_result # <<>>
    /\ match_result[1].reveal_id = reveal_rows[2].id

\* the batch has gone through all the purchases
BatchComplete ==
    \/ pc = "batch_done"
    \/ pc \in {"loop", "done"} /\ i > Len(sorted_purchases)

MatchedIds == {matched[k].skybox_id : k \in 1..Len(matched)}
UnmatchedIds == {unmatched[k].id : k \in 1..Len(unmatched)}

\* C3: when batch matching has completed (either implementation), every
\* purchase of the input is in exactly one of the two outputs: the lengths
\* add up to the number of purchases, every purchase id is the purchase of
\* a matched result or in the unmatched list, and no id is in both or twice.
C3_BatchPartition ==
    BatchComplete =>
        /\ Len(matched) + Len(unmatched) = Len(skybox_rows)
        /\ MatchedIds \cap UnmatchedIds = {}
        /\ MatchedIds \cup UnmatchedIds = {skybox_rows[k].id : k \in 1..Len(skybox_rows)}
        /\ Cardinality(MatchedIds) = Len(matched)
        /\ Cardinality(UnmatchedIds) = Len(unmatched)

\* a completed batch with a matched and an unmatched purchase
C3_Witness ==
    /\ pc = "batch_done"
    /\ Len(skybox_rows) = 2
    /\ Len(matched) = 1
    /\ Len(unmatched) = 1

\* C4: every transaction of the pool that the multi-criteria strategy
\* accepts for the purchase (score >= 0.75) is in the output of the
\* candidate filter for that purchase and pool.
C4_FilterKeepsMultiCriteria ==
    pc \in {"filtered", "scored"} =>
        \A k \in 1..Len(reveal_rows) :
            _match_by_multiple_criteria(Meta1, reveal_rows[k]) # <<>>
                => reveal_rows[k] \in Range(candidates)

\* the multi-criteria strategy accepts a transaction three days away, and
\* the filter keeps it and drops the other transaction of the pool
C4_Witness ==
    /\ pc = "filtered"
    /\ Len(reveal_rows) = 2
    /\ Len(candidates) = 1
    /\ \E k \in 1..2 :
          /\ _match_by_multiple_criteria(Meta1, reveal_rows[k]) # <<>>
          /\ date_diff(Meta1.created_date, reveal_rows[k].date) >= 2
          /\ candidates = << reveal_rows[k] >>

\* the results the strategies produce for the pool, and the one returned
Produced ==
    Range(scored) \cup Range(match_result)
    \cup UNION { Range(_match_by_order_number(Meta1, reveal_rows[k]))
                 \cup Range(_match_by_multiple_criteria(Meta1, reveal_rows[k]))
                 : k \in 1..Len(reveal_rows) }

\* C5: every result has a confidence in [0, 1]; a result of the
\* multi-criteria strategy has a confidence of at most 0.90, never 1.0;
\* a result has confidence 1.0 exactly when its criteria contain
\* order_number, that is, when the order-number strategy produced it.
C5_ConfidenceRange ==
    pc = "scored" =>
        /\ \A r \in Produced :
              /\ r.confidence_score >= 0
              /\ r.confidence_score <= 100
              /\ r.confidence_score = 100 <=> "order_number" \in Range(r.match_criteria)
        /\ \A k \in 1..Len(reveal_rows) :
              /\ \A r \in Range(_match_by_multiple_criteria(Meta1, reveal_rows[k])) :
                    r.confidence_score <= 90 /\ r.confidence_score # 100
              /\ \A r \in Range(_match_by_order_number(Meta1, reveal_rows[k])) :
                    r.confidence_score = 100

\* a pool whose two transactions give a multi-criteria result of 0.90 and
\* an order-number result of 1.0
C5_Witness ==
    /\ pc = "scored"
    /\ Len(scored) = 2
    /\ scored[1].confidence_score = 90
    /\ scored[1].match_criteria = <<"amount_exact", "date_same_day", "last_four">>
    /\ scored[2].confidence_score = 100
    /\ match_result = << scored[2] >>

\* the three tags of an exact amount on the same day with the last-4 signal
AllThree == <<"amount_exact", "date_same_day", "last_four">>

\* the metadata of the same purchase when its notes yield no last-4 digits
MetaNoLastFour == [Meta1 EXCEPT !.last_four = NoneVal]

\* the same transaction dated where no date signal fires
FarDated(t) == [t EXCEPT !.date = Meta1.created_date + 10 * TicksPerDay]

\* C6: for a pair with an exact amount match, the score with a qualifying
\* last-4 signal is strictly greater than the score of the same pair
\* without it, and likewise for a qualifying date signal; exact amount +
\* same-day signal + last-4 signal scores 0.90 and is accepted by the
\* multi-criteria strategy, and the same pair without the last-4 signal is
\* not accepted.
C6_ScoreMonotonic ==
    pc = "scored" =>
        \A k \in 1..Len(reveal_rows) :
            LET t == reveal_rows[k]
            IN  amount_signal(Meta1, t).tags = <<"amount_exact">> =>
                  /\ last_four_signal(Meta1, t).tags # <<>>
                        => score(Meta1, t) > score(MetaNoLastFour, t)
                  /\ date_signal(Meta1, t).tags # <<>>
                        => score(Meta1, t) > score(Meta1, FarDated(t))
                  /\ criteria_met(Meta1, t) = AllThree
                        => /\ score(Meta1, t) = 90
                           /\ _match_by_multiple_criteria(Meta1, t) # <<>>
                           /\ _match_by_multiple_criteria(MetaNoLastFour, t) = <<>>
                           /\ \E r \in Range(scored) :
                                 /\ r.reveal_id = t.id
                                 /\ r.confidence_score >= 90

\* a purchase without reference whose match is the 0.90 multi-criteria
\* result of exact amount, same day and last-4
C6_Witness ==
    /\ pc = "scored"
    /\ ~Truthy(P1.externalRef)
    /\ Len(reveal_rows) >= 1
    /\ criteria_met(Meta1, reveal_rows[1]) = AllThree
    /\ match_result # <<>>
    /\ match_result[1].confidence_score = 90
    /\ match_result[1].match_criteria = AllThree
    /\ score(MetaNoLastFour, reveal_rows[1]) = 70

\* the purchase has no external reference and its notes yield no last-4
C7_Purchase ==
    /\ ~Truthy(P1.externalRef)
    /\ _extract_last_four(P1.internalNotes) = NoneVal

\* transaction t has exactly the amount of the purchase
EqualAmount(t) == Abs(t.amount) * 10 = P1.total

\* the date of t is less than one day after the creation time of the
\* purchase: the whole-day difference the engine computes is 0
ZeroDayDifference(t) ==
    /\ t.date - P1.createdDate >= 0
    /\ t.date - P1.createdDate < TicksPerDay

\* the date of t and the creation time fall on the same calendar day
SameCalendarDay(t) ==
    \E day \in 0..30 :
        /\ day * TicksPerDay <= t.date /\ t.date < (day + 1) * TicksPerDay
        /\ day * TicksPerDay <= P1.createdDate
        /\ P1.createdDate < (day + 1) * TicksPerDay

C8_BestAboveFloor ==
    pc = "scored" =>
        /\ match_result # <<>> =>
              /\ match_result[1] \in Range(scored)
              /\ match_result[1].confidence_score >= 75
              /\ \A r \in Range(scored) :
                    r.confidence_score <= match_result[1].confidence_score
        /\ match_result = <<>> <=>
              \A r \in Range(scored) : r.confidence_score < 75
        /\ \A r \in Range(scored) :
              \E k \in 1..Len(reveal_rows) :
                  /\ r.reveal_id = reveal_rows[k].id
                  /\ << r >> \in { _match_by_order_number(Meta1, reveal_rows[k]),
                                   _match_by_multiple_criteria(Meta1, reveal_rows[k]) }

\* two candidates with results, the better one second in the pool
C8_Witness ==
    /\ pc = "scored"
    /\ Len(scored) = 2
    /\ scored[1].confidence_score < scored[2].confidence_score
    /\ match_result = << scored[2] >>

\* the amount of t is less than 5.00 away from the total of p
WithinFive(p, t) ==
    LET major == Abs(t.amount) * 10
    IN  major - p.total < 5000 /\ p.total - major < 5000

\* the signed number of whole days from the creation time of p to the date
\* of t, rounded down, is between -7 and 7: t is dated no more than 7 days
\* before and less than 8 days after the creation time
WithinSevenDays(p, t) ==
    /\ t.date - p.createdDate >= -7 * TicksPerDay
    /\ t.date - p.createdDate < 8 * TicksPerDay

\* C9: the candidate filter returns exactly the transactions of the pool
\* whose amount is less than 5.00 away from the purchase total and whose
\* whole-day difference to the purchase creation time (the .days of the
\* difference of the two timestamps, which rounds down) is at most 7 in
\* absolute value: none that satisfies both is left out, none that
\* violates either is included, and none is repeated.
C9_FilterExact ==
    pc \in {"filtered", "scored"} =>
        /\ \A k \in 1..Len(reveal_rows) :
              reveal_rows[k] \in Range(candidates)
                  <=> WithinFive(P1, reveal_rows[k]) /\ WithinSevenDays(P1, reveal_rows[k])
        /\ Range(candidates) \subseteq Range(reveal_rows)
        /\ Cardinality(Range(candidates)) = Len(candidates)

\* a pool of two transactions of which the filter keeps one and drops the
\* other, which is inside the date window but 5.00 away in amount
C9_Witness ==
    /\ pc = "filtered"
    /\ Len(reveal_rows) = 2
    /\ Len(candidates) = 1
    /\ \E k \in 1..2 : ~WithinFive(P1, reveal_rows[k]) /\ WithinSevenDays(P1, reveal_rows[k])
    /\ \E k \in 1..2 : candidates = << reveal_rows[k] >>

\* the run returned after one of the two fetches raised
FetchFailed == pc = "done" /\ raised \in {"fetch_purchases", "fetch_transactions"}

\* what the result of a failed fetch has apart from total_purchases
C10_Rest ==
    /\ Len(result) = 1
    /\ result[1].total_transactions = 0
    /\ result[1].matches_found = 0
    /\ result[1].matches_updated = 0
    /\ result[1].unmatched_purchases = 0
    /\ result[1].matches = <<>>
    /\ Len(result[1].errors) = 1
    /\ result[1].errors[1] \in Messages
    /\ engine_calls = 0
    /\ matched = <<>>
    /\ unmatched = <<>>

\* C10 as stated: when either fetch raises, the result has all five counts
\* 0, an empty matches list and the error as the single string of errors,
\* and no matching was attempted.
C10_AllCountsZero ==
    FetchFailed => result[1].total_purchases = 0 /\ C10_Rest

\* C10, amended: when either fetch raises, the result has
\* total_transactions, matches_found, matches_updated and
\* unmatched_purchases 0, an empty matches list and the error as the single
\* string of errors, and no matching was attempted; total_purchases is 0
\* when the purchase fetch raised and the number of purchases fetched when
\* the transaction fetch raised.
C10_FetchFailure ==
    FetchFailed =>
        /\ C10_Rest
        /\ raised = "fetch_purchases" => result[1].total_purchases = 0
        /\ raised = "fetch_transactions" => result[1].total_purchases = Len(skybox_rows)

\* the transaction fetch raised after two purchases had been fetched
C10_Witness ==
    /\ FetchFailed
    /\ raised = "fetch_transactions"
    /\ Len(skybox_rows) = 2
    /\ result[1].total_purchases = 2
    /\ result[1].errors = <<"timeout">>

\* the run fetched both lists and the purchase list was empty
ZeroPurchasesRun ==
    /\ pc = "done"
    /\ purchases = << <<>> >>
    /\ transactions # <<>>

\* C11: when a run fetches zero purchases, the success rate is reported as
\* 0 without a division error: the call completes its normal path and the
\* result it returns has an empty errors list.
C11_ZeroPurchasesNoError ==
    ZeroPurchasesRun =>
        /\ raised = ""
        /\ result[1].errors = <<>>

\* C12: no exception escapes reconcile_transactions.  Whatever the fetch
\* collaborators and the matching engine do (return or raise), a step that
\* raises ends the call with a ReconciliationResult, the call never ends
\* without one, and every failure is recorded in a non-empty errors list.
C12_NoExceptionEscapes ==
    /\ raised # "" => pc = "done"
    /\ pc = "done" => /\ Len(result) = 1
                      /\ raised # "" => result[1].errors # <<>>

\* the engine raised on a malformed date in the middle of the batch and
\* the call returned a result with the error
C12_Witness ==
    /\ pc = "done"
    /\ raised = "batch_match"
    /\ i = 2
    /\ matched # <<>>
    /\ result[1].errors = << IsoformatMessage(NotADate) >>
    /\ result[1].total_purchases = 2

\* the calls of writes that update the purchase skybox_id in Skybox
PurchaseUpdates(skybox_id) ==
    { j \in 1..Len(writes) : /\ writes[j].call = "update_purchase_payment"
                             /\ writes[j].purchase_id = skybox_id }

\* the calls of writes that mark the transaction reveal_id as matched to the
\* purchase skybox_id in Reveal
TransactionUpdates(reveal_id, skybox_id) ==
    { j \in 1..Len(writes) : /\ writes[j].call = "mark_transaction_matched"
                             /\ writes[j].transaction_id = reveal_id
                             /\ writes[j].skybox_purchase_id = skybox_id }

\* the matches of the list for which both write calls returned True
AppliedMatches ==
    { k \in 1..Len(matched) :
        /\ \E j \in PurchaseUpdates(matched[k].skybox_id) : writes[j].outcome = "true"
        /\ \E j \in TransactionUpdates(matched[k].reveal_id, matched[k].skybox_id) :
              writes[j].outcome = "true" }

\* a run that is not a dry run returned from its normal path
LiveRunReturned == pc = "done" /\ ~dry_run /\ raised = ""

\* C13: in a run that is not a dry run the matched results are handed to
\* the update step after batch matching: the update of both systems is
\* invoked exactly once for each accepted match, and matches_updated is the
\* number of matches applied.
C13_LiveRunAppliesMatches ==
    LiveRunReturned =>
        /\ \A k \in 1..Len(matched) :
              /\ Cardinality(PurchaseUpdates(matched[k].skybox_id)) = 1
              /\ Cardinality(TransactionUpdates(matched[k].reveal_id,
                                                matched[k].skybox_id)) = 1
        /\ result[1].matches_updated = Cardinality(AppliedMatches)

\* C15: in _update_systems a match that cannot be applied (a collaborator
\* returns False, the transaction or the card mapping is missing, a call
\* raises) does not end the loop: the call returns only after the loop has
\* passed every match of the list, in order, no exception leaves it, and
\* the count it returns is the number of matches for which both the
\* purchase update and the transaction update reported success.
C15_UpdateFailuresAbsorbed ==
    /\ pc \in {"update_loop", "update_done"} =>
          /\ raised = ""
          /\ i \in 1..(Len(matched) + 1)
          /\ success_count = Cardinality(AppliedMatches)
    /\ pc = "update_done" => i = Len(matched) + 1

\* two matches were handed over, neither transaction was found, and the
\* call returned 0 after passing both
C15_Witness ==
    /\ pc = "update_done"
    /\ Len(matched) = 2
    /\ i = 3
    /\ success_count = 0
    /\ writes = <<>>

\* C14: a dry run calls no write collaborator (update_purchase_payment,
\* mark_transaction_matched) and returns matches_updated = 0, and the
\* matches and matches_found of a run do not depend on dry_run: they are
\* those of the batch over the fetched rows.
C14_DryRunWritesNothing ==
    /\ dry_run => writes = <<>>
    /\ (pc = "done" /\ raised = "") =>
          LET found == batch_match_transactions(skybox_rows, reveal_rows).matched
          IN  /\ dry_run => result[1].matches_updated = 0
              /\ result[1].matches_found = Len(found)
              /\ result[1].matches = serialized(found)

\* a dry run found two matches and returned them without a write
C14_Witness ==
    /\ pc = "done"
    /\ raised = ""
    /\ dry_run
    /\ result[1].matches_found = 2
    /\ Len(result[1].matches) = 2
    /\ result[1].matches_updated = 0
    /\ writes = <<>>

\* a run over a non-empty purchase list returned after both fetches
RunOverPurchases ==
    /\ pc = "done"
    /\ purchases # <<>>
    /\ transactions # <<>>
    /\ Len(purchases[1]) > 0

\* C16: metadata that is malformed or cannot be extracted (notes that are
\* empty, missing or not text, a purchase or transaction date that is not a
\* date) is absorbed where it is read: nothing is raised, and every
\* purchase of the batch is still classified as matched or unmatched.
C16_MalformedMetadataAbsorbed ==
    /\ pc # "batch_raised"
    /\ RunOverPurchases =>
          /\ raised = ""
          /\ Len(matched) + Len(unmatched) = Len(purchases[1])
          /\ result[1].matches_found + result[1].unmatched_purchases
                = Len(purchases[1])

\* the creation time of a purchase as the engine parses it, in half ticks:
\* a text with a fractional part is later than the text of the same tick
\* without one
creation_time(purchase) ==
    2 * iso_ticks(created_date(purchase)) + iso_frac(created_date(purchase))

\* the purchases of ids, a list of ids of skybox_rows, are in non-decreasing
\* order of creation time, and those of equal creation time in input order
\* (the id of a row is its place in the input)
InCreationOrder(ids) ==
    \A a, b \in 1..Len(ids) :
        a < b =>
            LET pa == skybox_rows[ids[a]]
                pb == skybox_rows[ids[b]]
            IN  /\ creation_time(pa) <= creation_time(pb)
                /\ creation_time(pa) = creation_time(pb) => ids[a] < ids[b]

\* the batch ended without raising: batch_match_transactions returned, or
\* the loop of _batch_match has passed the last purchase
BatchReturned ==
    \/ pc = "batch_done"
    \/ pc = "loop" /\ i > Len(sorted_purchases)
    \/ pc = "done" /\ raised \in {"", "success_rate"} /\ purchases # <<>>
                   /\ transactions # <<>>

\* C17: whatever the order of the input list, both output lists of a batch
\* (matched and unmatched) are in non-decreasing order of the creation time
\* of their purchases, and purchases of equal creation time keep their
\* input order.
C17_CreationTimeOrder ==
    BatchReturned =>
        /\ InCreationOrder([k \in 1..Len(matched) |-> matched[k].skybox_id])
        /\ InCreationOrder([k \in 1..Len(unmatched) |-> unmatched[k].id])

\* C18: the candidate filter drops no true match.  Every transaction of the
\* pool for which a strategy returns a result (the order-number strategy at
\* 1.0 included) is in the output of the filter, so matching the purchase
\* against the filtered pool, as the batch does, gives the match that the
\* unfiltered pool gives.
C18_FilterKeepsTrueMatches ==
    pc = "scored" =>
        /\ \A k \in 1..Len(reveal_rows) :
              strategy_result(Meta1, reveal_rows[k]) # <<>>
                  => reveal_rows[k] \in Range(candidates)
        /\ match_transactions(P1, candidates) = match_result

\* the results of the list candidates that transaction t contributed
ResultsOf(t) == { j \in 1..Len(scored) : scored[j].reveal_id = t.id }

\* C19: for each transaction of the pool the strategies are tried in the
\* order order-number, multi-criteria, email-metadata and the first result
\* ends the trial: the transaction contributes at most one result; that
\* result is the order-number result (confidence 1.0) whenever the
\* order-number strategy returns one, also when the multi-criteria strategy
\* would return one too; it is the multi-criteria result only when the
\* order-number strategy returns none; and the email-metadata strategy
\* returns no result.
C19_StrategyOrder ==
    pc = "scored" =>
        \A k \in 1..Len(reveal_rows) :
            LET t     == reveal_rows[k]
                order == _match_by_order_number(Meta1, t)
                multi == _match_by_multiple_criteria(Meta1, t)
            IN  /\ Cardinality(ResultsOf(t)) <= 1
                /\ _match_by_email_metadata(Meta1, t) = <<>>
                /\ order # <<>> =>
                      /\ \A j \in ResultsOf(t) : scored[j] = order[1]
                      /\ Cardinality(ResultsOf(t)) = 1
                      /\ order[1].confidence_score = ORDER_CONFIDENCE
                /\ (order = <<>> /\ multi # <<>>) =>
                      /\ \A j \in ResultsOf(t) : scored[j] = multi[1]
                      /\ Cardinality(ResultsOf(t)) = 1
                /\ (order = <<>> /\ multi = <<>>) => ResultsOf(t) = {}

\* both strategies accept the first transaction of the pool and its result
\* is the order-number one; the second is accepted by the multi-criteria
\* strategy only
C19_Witness ==
    /\ pc = "scored"
    /\ Len(reveal_rows) = 2
    /\ _match_by_order_number(Meta1, reveal_rows[1]) # <<>>
    /\ _match_by_multiple_criteria(Meta1, reveal_rows[1]) # <<>>
    /\ _match_by_order_number(Meta1, reveal_rows[2]) = <<>>
    /\ Len(scored) = 2
    /\ scored[1].confidence_score = ORDER_CONFIDENCE
    /\ scored[2] = _match_by_multiple_criteria(Meta1, reveal_rows[2])[1]

\* the calendar day of a time: days start at the multiples of TicksPerDay
CalendarDay(time) == time \div TicksPerDay

\* the number of calendar days between the date of t and the creation time
\* of the purchase
CalendarDistance(t) == Abs(CalendarDay(t.date) - CalendarDay(P1.createdDate))

\* C20: in the multi-criteria strategy the date signal follows calendar
\* proximity.  When the transaction date and the creation time of the
\* purchase fall on the same calendar day the signal is date_same_day
\* (+0.30), also when the purchase was created later in the day than the
\* transaction's timestamp; on different days at most 3 days apart, in
\* either direction, it is date_within_3_days (+0.20); otherwise there is
\* no date signal.
C20_DateSignalByCalendarDay ==
    pc = "scored" =>
        \A k \in 1..Len(reveal_rows) :
            LET t      == reveal_rows[k]
                signal == date_signal(Meta1, t)
            IN  /\ CalendarDistance(t) = 0 =>
                      signal = [tags |-> <<"date_same_day">>, w |-> W_DATE_SAME_DAY]
                /\ CalendarDistance(t) \in 1..3 =>
                      signal = [tags |-> <<"date_within_3_days">>, w |-> W_DATE_WITHIN_3]
                /\ CalendarDistance(t) > 3 => signal = [tags |-> <<>>, w |-> 0]

\* C21: the test best_match.confidence_score >= 0.75 of match_transactions
\* never fails.  Every result in the list candidates has a confidence of at
\* least 0.75, so whenever the list is not empty its best result is
\* returned.
C21_RecheckIsNoOp ==
    pc = "scored" =>
        /\ \A j \in 1..Len(scored) : scored[j].confidence_score >= ACCEPT_FLOOR
        /\ scored # <<>> => match_result = << max_by_confidence(scored) >>

\* the list holds a multi-criteria result of 0.80 and an order-number
\* result, and the best of them is returned
C21_Witness ==
    /\ pc = "scored"
    /\ Len(scored) = 2
    /\ scored[1].confidence_score = 80
    /\ scored[2].confidence_score = ORDER_CONFIDENCE
    /\ match_result = << scored[2] >>

\* the weight the strategy adds with a tag
TagWeight(tag) ==
    CASE tag = "amount_exact"       -> W_AMOUNT_EXACT
      [] tag = "amount_close"       -> W_AMOUNT_CLOSE
      [] tag = "date_same_day"      -> W_DATE_SAME_DAY
      [] tag = "date_within_3_days" -> W_DATE_WITHIN_3
      [] tag = "last_four"          -> W_LAST_FOUR

RECURSIVE SumOfWeights(_)
SumOfWeights(tags) ==
    IF tags = <<>> THEN 0 ELSE TagWeight(Head(tags)) + SumOfWeights(Tail(tags))

\* the lists made of one amount tag, then at most one date tag, then at
\* most one last_four tag
OrderedCriteria ==
    { a \o d \o l : a \in { <<"amount_exact">>, <<"amount_close">> },
                    d \in { <<>>, <<"date_same_day">>, <<"date_within_3_days">> },
                    l \in { <<>>, <<"last_four">> } }

\* C22: in every result of the multi-criteria strategy the criteria list is
\* one amount tag, then at most one date tag, then at most one last_four
\* tag; the confidence is the sum of the weights of the listed tags and is
\* at least 0.75; and a tag is listed exactly when its signal fired (the
\* amount difference below its tolerance as the code evaluates it, the
\* whole-day difference within its bound).
C22_CriteriaRecordScore ==
    pc = "scored" =>
        \A k \in 1..Len(reveal_rows) :
            LET t     == reveal_rows[k]
                multi == _match_by_multiple_criteria(Meta1, t)
                dd    == date_diff(Meta1.created_date, t.date)
            IN  multi # <<>> =>
                  LET tags == multi[1].match_criteria
                  IN  /\ tags \in OrderedCriteria
                      /\ multi[1].confidence_score = SumOfWeights(tags)
                      /\ multi[1].confidence_score >= STRATEGY_FLOOR
                      /\ "amount_exact" \in Range(tags)
                            <=> amount_within(t, P1.total, EXACT_AMOUNT_TOL)
                      /\ "date_same_day" \in Range(tags) <=> dd = 0
                      /\ "date_within_3_days" \in Range(tags) <=> dd \in 1..3

\* a result with the three tags in order and confidence 0.90, and in the
\* same pool one with the date tag of the second tier and 0.80
C22_Witness ==
    /\ pc = "scored"
    /\ Len(reveal_rows) = 2
    /\ \E j, k \in 1..2 :
          LET mj == _match_by_multiple_criteria(Meta1, reveal_rows[j])
              mk == _match_by_multiple_criteria(Meta1, reveal_rows[k])
          IN  /\ mj # <<>> /\ mk # <<>>
              /\ mj[1].match_criteria = <<"amount_exact", "date_same_day", "last_four">>
              /\ mj[1].confidence_score = 90
              /\ mk[1].match_criteria
                    = <<"amount_exact", "date_within_3_days", "last_four">>
              /\ mk[1].confidence_score = 80

\* the match of purchase p against the whole pool, whatever was matched
\* before
IndependentResult(p) ==
    match_transactions(p, _filter_candidate_transactions(p, reveal_rows))

\* C23: no transaction leaves the pool when it is matched.  For every
\* purchase of a batch the candidates are filtered from the full list of
\* transactions, so its result is the one it would get alone, whatever the
\* purchases before it matched; the list of transactions of the run stays
\* the list that was fetched.
C23_PoolNeverConsumed ==
    /\ pc = "batch_done" =>
          \A k \in 1..Len(skybox_rows) :
              LET r == IndependentResult(skybox_rows[k])
              IN  IF r # <<>> THEN r[1] \in Range(matched)
                  ELSE skybox_rows[k] \in Range(unmatched)
    /\ (pc = "loop" /\ i > 1) =>
          /\ candidates = _filter_candidate_transactions(sorted_purchases[i - 1],
                                                         reveal_rows)
          /\ match_result = IndependentResult(sorted_purchases[i - 1])
    /\ transactions # <<>> => transactions[1] = reveal_rows

\* a batch returned two matches, for two purchases, with the same
\* transaction
C23_Witness ==
    /\ pc = "batch_done"
    /\ Len(matched) = 2
    /\ matched[1].skybox_id # matched[2].skybox_id
    /\ matched[1].reveal_id = matched[2].reveal_id

\* C24: the core does not change what it is given.  No step of a run
\* changes a purchase record, a transaction record, or the order and
\* content of the two lists of the caller; the lists bound in
\* reconcile_transactions stay as fetched, and between the iterations of
\* the batch loop the sorted copy stays as it is: only the two output lists
\* grow.
C24_InputsNeverMutated ==
    [][ /\ skybox_rows' = skybox_rows
        /\ reveal_rows' = reveal_rows
        /\ purchases # <<>> => purchases' = purchases
        /\ transactions # <<>> => transactions' = transactions
        /\ (pc = "loop" /\ pc' = "loop") =>
              /\ sorted_purchases' = sorted_purchases
              /\ \/ matched' = matched /\ Len(unmatched') = Len(unmatched) + 1
                 \/ unmatched' = unmatched /\ Len(matched') = Len(matched) + 1
      ]_vars

\* a run sorted two purchases into another order than the caller's,
\* matched one of them, and the caller's lists are as they were given
C24_Witness ==
    /\ pc = "done"
    /\ raised = ""
    /\ Len(skybox_rows) = 2
    /\ sorted_purchases = << skybox_rows[2], skybox_rows[1] >>
    /\ sorted_purchases # skybox_rows
    /\ purchases = << skybox_rows >>
    /\ transactions = << reveal_rows >>
    /\ Len(matched) = 1

\* the pool with the amount of its transaction k negated
Negated(rows, k) == [rows EXCEPT ![k].amount = -rows[k].amount]

\* the ids of a list of transactions, in order
Ids(rows) == [j \in 1..Len(rows) |-> rows[j].id]

\* C25: the sign of a transaction amount has no effect on matching.
\* Negating the amount of any transaction of the pool leaves the output of
\* the candidate filter (the same transactions, in the same order) and the
\* match returned (transaction id, confidence, criteria, metadata)
\* unchanged.
C25_SignIrrelevant ==
    pc = "scored" =>
        \A k \in 1..Len(reveal_rows) :
            LET negated == Negated(reveal_rows, k)
            IN  /\ Ids(_filter_candidate_transactions(P1, negated)) = Ids(candidates)
                /\ match_transactions(P1, negated) = match_result
                /\ candidate_results(Meta1, negated) = scored

\* the transaction that is matched has a negative amount
C25_Witness ==
    /\ pc = "scored"
    /\ Len(reveal_rows) = 1
    /\ reveal_rows[1].amount < 0
    /\ candidates = reveal_rows
    /\ match_result # <<>>
    /\ match_result[1].reveal_id = reveal_rows[1].id

\* the purchase of skybox_rows with the id of result r, and the
\* transaction of reveal_rows with its reveal_id
PurchaseOf(r) == CHOOSE p \in Range(skybox_rows) : p.id = r.skybox_id
TransactionOf(r) == CHOOSE t \in Range(reveal_rows) : t.id = r.reveal_id

\* the results returned so far by the batch of the run
Returned == Range(matched) \cup Range(match_result)

\* C26: every match returned by match_transactions or by a batch pairs a
\* purchase with a transaction whose currency amount differs from the
\* total of the purchase by less than 0.01, and the criteria of no match
\* contain amount_close.
C26_MatchesHaveExactAmount ==
    \A r \in Returned :
        /\ AmountWithin(PurchaseOf(r), TransactionOf(r), EXACT_AMOUNT_TOL)
        /\ "amount_close" \notin Range(r.match_criteria)

\* the account field of t (last_four, else sub_account) contains digits
AccountHolds(t, digits) ==
    IsSubstr(digits, Str(IF Truthy(t.last_four) THEN t.last_four ELSE t.sub_account))

\* the order-number strategy succeeds on no transaction of the pool, and
\* the notes of the purchase yield no last-4 digits or digits that the
\* account field of no transaction contains
C27_Case ==
    /\ \A k \in 1..Len(reveal_rows) : _match_by_order_number(Meta1, reveal_rows[k]) = <<>>
    /\ \/ _extract_last_four(P1.internalNotes) = NoneVal
       \/ \A k \in 1..Len(reveal_rows) :
              ~AccountHolds(reveal_rows[k], _extract_last_four(P1.internalNotes))

\* C27: a purchase for which the order-number strategy succeeds on no
\* candidate, and whose notes yield no last-4 digits or digits that no
\* candidate's account field contains, is unmatched; the multi-criteria
\* strategy returns a result only with the three signals together: the
\* exact amount, a date signal and the last-4 signal.
C27_NoLastFourNoMatch ==
    pc = "scored" =>
        /\ C27_Case => match_result = <<>> /\ scored = <<>>
        /\ \A k \in 1..Len(reveal_rows) :
              LET multi == _match_by_multiple_criteria(Meta1, reveal_rows[k])
              IN  multi # <<>> =>
                    /\ multi[1].match_criteria[1] = "amount_exact"
                    /\ multi[1].match_criteria[2]
                          \in {"date_same_day", "date_within_3_days"}
                    /\ multi[1].match_criteria[3] = "last_four"
                    /\ AccountHolds(reveal_rows[k], _extract_last_four(P1.internalNotes))

\* the notes hold last-4 digits that the account of the transaction does
\* not contain; amount and day agree, and the purchase is unmatched
C27_Witness ==
    /\ pc = "scored"
    /\ C27_Case
    /\ Len(reveal_rows) = 1
    /\ _extract_last_four(P1.internalNotes) # NoneVal
    /\ amount_signal(Meta1, reveal_rows[1]).tags = <<"amount_exact">>
    /\ date_signal(Meta1, reveal_rows[1]).tags = <<"date_same_day">>
    /\ match_result = <<>>

\* the places of the pool whose transaction gets a result of the
\* confidence c
PlacesWith(c) ==
    { k \in 1..Len(reveal_rows) :
        /\ strategy_result(Meta1, reveal_rows[k]) # <<>>
        /\ strategy_result(Meta1, reveal_rows[k])[1].confidence_score = c }

\* xs is ys with some elements left out, the order kept
RECURSIVE IsSubsequence(_, _)
IsSubsequence(xs, ys) ==
    IF xs = <<>> THEN TRUE
    ELSE IF ys = <<>> THEN FALSE
    ELSE IF Head(xs) = Head(ys) THEN IsSubsequence(Tail(xs), Tail(ys))
    ELSE IsSubsequence(xs, Tail(ys))

\* C28: when several transactions tie for the highest confidence,
\* match_transactions returns the result of the one that comes first in
\* the pool; the filter keeps the order of the pool, so the same holds for
\* the filtered pool of a batch.
C28_FirstOfTiedWins ==
    pc = "scored" =>
        /\ IsSubsequence(candidates, reveal_rows)
        /\ match_result # <<>> =>
              \A k \in PlacesWith(match_result[1].confidence_score) :
                  \E j \in 1..k : /\ reveal_rows[j].id = match_result[1].reveal_id
                                  /\ j \in PlacesWith(match_result[1].confidence_score)
        /\ LET filtered == match_transactions(P1, candidates)
           IN  filtered # <<>> =>
                 \A k \in 1..Len(candidates) :
                     LET r == strategy_result(Meta1, candidates[k])
                     IN  (r # <<>> /\ r[1].confidence_score = filtered[1].confidence_score)
                            => \E j \in 1..k : candidates[j].id = filtered[1].reveal_id

\* two transactions of the pool tie at 1.0 and the first is returned
C28_Witness ==
    /\ pc = "scored"
    /\ Len(reveal_rows) = 2
    /\ candidates = reveal_rows
    /\ PlacesWith(ORDER_CONFIDENCE) = {1, 2}
    /\ match_result[1].reveal_id = reveal_rows[1].id
    /\ reveal_rows[1].id # reveal_rows[2].id

\* the result the call returned
Returned1 == result[1]

\* C29, as stated: every result is consistent, matches_found is the length
\* of matches and matches_found + unmatched_purchases is total_purchases,
\* and a failed run reports no match.
C29_ResultConsistent ==
    pc = "done" =>
        /\ Returned1.matches_found = Len(Returned1.matches)
        /\ Returned1.matches_found + Returned1.unmatched_purchases
              = Returned1.total_purchases
        /\ Returned1.errors # <<>> =>
              Returned1.matches = <<>> /\ Returned1.matches_found = 0

\* C29, amended: in every result matches_found is the length of matches.
\* A run without error reports matches_found + unmatched_purchases =
\* total_purchases.  A failed run reports no match and no unmatched
\* purchase (matches empty, matches_found 0, unmatched_purchases 0) while
\* total_purchases is the number of purchases fetched before the failure.
C29_ResultConsistentOnSuccess ==
    pc = "done" =>
        /\ Returned1.matches_found = Len(Returned1.matches)
        /\ Returned1.errors = <<>> =>
              Returned1.matches_found + Returned1.unmatched_purchases
                  = Returned1.total_purchases
        /\ Returned1.errors # <<>> =>
              /\ Returned1.matches = <<>>
              /\ Returned1.matches_found = 0
              /\ Returned1.unmatched_purchases = 0
              /\ Returned1.total_purchases
                    = IF purchases # <<>> THEN Len(skybox_rows) ELSE 0

\* the batch failed at its second purchase after matching the first: the
\* result counts two purchases, no match and no unmatched purchase
C29_Witness ==
    /\ pc = "done"
    /\ raised = "batch_match"
    /\ Len(matched) = 1
    /\ Returned1.total_purchases = 2
    /\ Returned1.matches = <<>>
    /\ Returned1.matches_found = 0
    /\ Returned1.unmatched_purchases = 0

\* the loop of _batch_match has passed the last purchase
BatchMatchReturned == pc = "loop" /\ i > Len(sorted_purchases)

\* C30: the two batch implementations agree.  On the same purchases and
\* transactions, _batch_match returns the matched results and the
\* unmatched purchases that batch_match_transactions returns, in the same
\* order, and either raises exactly when the other does.
C30_BatchImplementationsAgree ==
    /\ BatchMatchReturned =>
          /\ ~batch_raises(skybox_rows, reveal_rows)
          /\ batch_match_transactions(skybox_rows, reveal_rows)
                = [matched |-> matched, unmatched |-> unmatched]
    /\ raised = "batch_match" => batch_raises(skybox_rows, reveal_rows)
    /\ pc = "batch_raised" => batch_raises(skybox_rows, reveal_rows)
    /\ pc = "batch_done" =>
          /\ ~batch_raises(skybox_rows, reveal_rows)
          /\ batch_loop(sorted_by_created(skybox_rows), reveal_rows, <<>>, <<>>)
                = [matched |-> matched, unmatched |-> unmatched]

\* _batch_match returned one match and one unmatched purchase, taken in
\* another order than the input's
C30_Witness ==
    /\ BatchMatchReturned
    /\ Len(matched) = 1
    /\ Len(unmatched) = 1
    /\ sorted_purchases # skybox_rows

====
